---- MODULE Spec2Model ----
(***************************************************************************)
(* Model of frameworks/php/laravel.py: LaravelFramework.                   *)
(*                                                                         *)
(* State: the framework instance (project_name, base_path,                 *)
(* docker_requirements), the part of the filesystem below base_path that   *)
(* the class touches, and the position of the single thread of control     *)
(* inside the public method it is executing.  Exceptions are modelled by   *)
(* their class names together with Python's subclass relation, so that an  *)
(* `except` clause catches exactly what it catches in Python.              *)
(***************************************************************************)
EXTENDS Integers, Sequences, FiniteSets, TLC

VARIABLES inst,      \* the LaravelFramework instance (self)
          fs,        \* filesystem: path -> [kind, content]
          pc,        \* "idle", "run" (process pending) or "assets" (writer at work)
          op,        \* the public method being executed / last executed
          outcome,   \* "none" | "returned" | "raised" of the last finished call
          result,    \* the value returned by the last finished call
          exc,       \* class of the last exception raised inside the call, or "none"
          proc,      \* what the external process did in the last initialize_project
          log,       \* filesystem operations completed by the method in this call
          faulted,   \* an I/O error of the environment hit this call
          step,      \* index of the next step of the asset writer, 0 outside it
          prev,      \* snapshot taken when the current call began
          ncalls     \* number of public calls made so far

vars == <<inst, fs, pc, op, outcome, result, exc, proc, log, faulted, step, prev, ncalls>>

(***************************************************************************)
(* Bounds                                                                  *)
(***************************************************************************)
MaxCalls == 2

ProjectNames == {"myapp", "blog"}

BasePaths == {<<"srv">>}

(***************************************************************************)
(* Python exception classes and `except` matching                          *)
(***************************************************************************)
ExcParent ==
    [ FileNotFoundError  |-> "OSError",
      FileExistsError    |-> "OSError",
      NotADirectoryError |-> "OSError",
      IsADirectoryError  |-> "OSError",
      PermissionError    |-> "OSError",
      OSError            |-> "Exception",
      CalledProcessError |-> "SubprocessError",
      SubprocessError    |-> "Exception",
      KeyError           |-> "LookupError",
      LookupError        |-> "Exception",
      Exception          |-> "BaseException" ]

RECURSIVE IsSubclass(_, _)
IsSubclass(c, base) ==
    IF c = base THEN TRUE
    ELSE IF c \in DOMAIN ExcParent THEN IsSubclass(ExcParent[c], base)
    ELSE FALSE

(***************************************************************************)
(* Small pieces of Python's str / dict behaviour                           *)
(***************************************************************************)
Digit == <<"0", "1", "2", "3", "4", "5", "6", "7", "8", "9">>

\* str(int) as used by an f-string replacement field
RECURSIVE IntToStr(_)
IntToStr(n) ==
    IF n < 10 THEN Digit[n + 1]
    ELSE IntToStr(n \div 10) \o Digit[(n % 10) + 1]

\* sep.join(seq)
RECURSIVE Join(_, _)
Join(seq, sep) ==
    IF Len(seq) = 0 THEN ""
    ELSE IF Len(seq) = 1 THEN seq[1]
    ELSE seq[1] \o sep \o Join(Tail(seq), sep)

\* str.strip() on a text held as its sequence of lines: the blank lines at
\* both ends go (the first and last kept line carry no outer whitespace).
RECURSIVE StripLeft(_)
StripLeft(lines) ==
    IF Len(lines) > 0 /\ lines[1] = "" THEN StripLeft(Tail(lines)) ELSE lines

RECURSIVE StripRight(_)
StripRight(lines) ==
    IF Len(lines) > 0 /\ lines[Len(lines)] = ""
    THEN StripRight(SubSeq(lines, 1, Len(lines) - 1))
    ELSE lines

Strip(lines) == StripRight(StripLeft(lines))

\* dict.update
DictUpdate(d, u) ==
    [k \in (DOMAIN d) \cup (DOMAIN u) |-> IF k \in DOMAIN u THEN u[k] ELSE d[k]]

(***************************************************************************)
(* Construction                                                            *)
(***************************************************************************)
\* docker_requirements as left by the base class before the update
BaseRequirements ==
    { <<>>,
      [ php   |-> [image |-> "php:8.1-fpm", extensions |-> <<"pdo_mysql">>],
        mysql |-> [image |-> "mysql:8.0"] ] }

LaravelRequirements ==
    [ php      |-> [ image      |-> "php:8.2-fpm",
                     extensions |-> <<"pdo_mysql", "mbstring", "exif",
                                      "pcntl", "bcmath", "gd">> ],
      composer |-> [ image |-> "composer:latest" ] ]

\* LaravelFramework.__init__
NewLaravelFramework(name, base, baseReq) ==
    [ project_name        |-> name,
      base_path           |-> base,
      docker_requirements |-> DictUpdate(baseReq, LaravelRequirements) ]

(***************************************************************************)
(* get_default_ports and configure_docker                                  *)
(***************************************************************************)
\* a port table with the web port changed
get_default_ports_web_8000(self) ==
    [ web |-> 8000, database |-> 3306, redis |-> 6379 ]

\* a port table that names the cache entry "cache"
get_default_ports_cache_key(self) ==
    [ web |-> 8080, database |-> 3306, cache |-> 6379 ]

get_default_ports(self) ==
    [ web |-> 8080, database |-> 3306, redis |-> 6379 ]

\* the key of get_default_ports() each service's host port is read from
PortKey == [ nginx |-> "web", mysql |-> "database", redis |-> "redis" ]

\* the subscripts configure_docker applies to get_default_ports()
LookedUpPortKeys == { PortKey[s] : s \in DOMAIN PortKey }

\* the replacement field {self.get_default_ports()[key]} of a port binding
HostPort(self, s) == IntToStr(get_default_ports(self)[PortKey[s]])

php_service(self) ==
    [ build      |-> [ context |-> ".", dockerfile |-> "docker/php/Dockerfile" ],
      volumes    |-> << ".:/var/www/html:cached",
                        "./docker/php/local.ini:/usr/local/etc/php/conf.d/local.ini:ro" >>,
      depends_on |-> << "mysql" >> ]

nginx_service(self) ==
    [ image      |-> "nginx:alpine",
      ports      |-> << HostPort(self, "nginx") \o ":80" >>,
      volumes    |-> << ".:/var/www/html:cached",
                        "./docker/nginx/conf.d:/etc/nginx/conf.d:ro" >>,
      depends_on |-> << "php" >> ]

\* a database service that waits for the web server
mysql_service_depends_on_nginx(self) ==
    [ image       |-> "mysql:8.0",
      environment |-> [ MYSQL_DATABASE      |-> "${DB_DATABASE}",
                        MYSQL_USER          |-> "${DB_USERNAME}",
                        MYSQL_PASSWORD      |-> "${DB_PASSWORD}",
                        MYSQL_ROOT_PASSWORD |-> "${DB_ROOT_PASSWORD}" ],
      ports       |-> << HostPort(self, "mysql") \o ":3306" >>,
      volumes     |-> << "mysql-data:/var/lib/mysql:cached" >>,
      depends_on  |-> << "nginx" >> ]

mysql_service(self) ==
    [ image       |-> "mysql:8.0",
      environment |-> [ MYSQL_DATABASE      |-> "${DB_DATABASE}",
                        MYSQL_USER          |-> "${DB_USERNAME}",
                        MYSQL_PASSWORD      |-> "${DB_PASSWORD}",
                        MYSQL_ROOT_PASSWORD |-> "${DB_ROOT_PASSWORD}" ],
      ports       |-> << HostPort(self, "mysql") \o ":3306" >>,
      volumes     |-> << "mysql-data:/var/lib/mysql:cached" >> ]

redis_service(self) ==
    [ image |-> "redis:alpine",
      ports |-> << HostPort(self, "redis") \o ":6379" >> ]

configure_docker(self) ==
    [ services |-> [ php   |-> php_service(self),
                     nginx |-> nginx_service(self),
                     mysql |-> mysql_service(self),
                     redis |-> redis_service(self) ],
      volumes  |-> ( "mysql-data" :> "None" ) ]

\* the exception a call of configure_docker raises, "none" when it returns:
\* subscripting the port table with a key it lacks raises KeyError
configure_docker_exc(self) ==
    IF LookedUpPortKeys \subseteq DOMAIN get_default_ports(self)
    THEN "none" ELSE "KeyError"

(***************************************************************************)
(* Paths and the filesystem                                                *)
(***************************************************************************)
\* pathlib's `/`
Child(p, name) == Append(p, name)

Parent(p) == SubSeq(p, 1, Len(p) - 1)

ProjectPath(self) == Child(self.base_path, self.project_name)

DockerPath(self) == Child(ProjectPath(self), "docker")

PhpPath(self) == Child(DockerPath(self), "php")

NginxPath(self) == Child(DockerPath(self), "nginx")

ConfDPath(self) == Child(NginxPath(self), "conf.d")

DockerfilePath(self) == Child(PhpPath(self), "Dockerfile")

LocalIniPath(self) == Child(PhpPath(self), "local.ini")

AppConfPath(self) == Child(ConfDPath(self), "app.conf")

GeneratedPaths(self) ==
    { DockerPath(self), PhpPath(self), NginxPath(self), ConfDPath(self),
      DockerfilePath(self), LocalIniPath(self), AppConfPath(self) }

AllPaths(self) == { self.base_path, ProjectPath(self) } \cup GeneratedPaths(self)

Absent == [kind |-> "absent", content |-> <<>>]

Dir == [kind |-> "dir", content |-> <<>>]

File(data) == [kind |-> "file", content |-> data]

KindOf(f, p) == IF p \in DOMAIN f THEN f[p].kind ELSE "dir"

\* os.mkdir: path resolution errors first, then EEXIST, then the create;
\* fault is an error of the environment ("perm") or "none"
os_mkdir(f, p, fault) ==
    IF fault = "perm" THEN [exc |-> "PermissionError", fs |-> f]
    ELSE IF KindOf(f, Parent(p)) = "absent" THEN [exc |-> "FileNotFoundError", fs |-> f]
    ELSE IF KindOf(f, Parent(p)) = "file" THEN [exc |-> "NotADirectoryError", fs |-> f]
    ELSE IF KindOf(f, p) # "absent" THEN [exc |-> "FileExistsError", fs |-> f]
    ELSE [exc |-> "none", fs |-> [f EXCEPT ![p] = Dir]]

\* pathlib.Path.mkdir(parents, exist_ok)
RECURSIVE mkdir(_, _, _, _, _)
mkdir(f, p, parents, exist_ok, fault) ==
    LET r == os_mkdir(f, p, fault) IN
    IF r.exc = "none" THEN r
    ELSE IF r.exc = "FileNotFoundError" THEN
        IF ~parents \/ ~(Parent(p) \in DOMAIN f) THEN r
        ELSE LET up == mkdir(f, Parent(p), TRUE, TRUE, fault) IN
             IF up.exc # "none" THEN up
             ELSE mkdir(up.fs, p, FALSE, exist_ok, fault)
    ELSE IF ~exist_ok \/ KindOf(f, p) # "dir" THEN r
    ELSE [exc |-> "none", fs |-> f]

\* mkdir() with the defaults: an existing directory is an error
path_mkdir_default(f, p, fault) == mkdir(f, p, FALSE, FALSE, fault)

\* mkdir(parents=True, exist_ok=True): missing ancestors are created too
path_mkdir_parents(f, p, fault) == mkdir(f, p, TRUE, TRUE, fault)

\* the call every directory creation of the class makes: mkdir(exist_ok=True)
path_mkdir(f, p, fault) == mkdir(f, p, FALSE, TRUE, fault)

\* pathlib.Path.write_text: open(path, "w") then write; "nospace" is a write
\* error after the open has created or truncated the file
write_text(f, p, data, fault) ==
    IF fault = "perm" THEN [exc |-> "PermissionError", fs |-> f]
    ELSE IF KindOf(f, Parent(p)) = "absent" THEN [exc |-> "FileNotFoundError", fs |-> f]
    ELSE IF KindOf(f, Parent(p)) = "file" THEN [exc |-> "NotADirectoryError", fs |-> f]
    ELSE IF KindOf(f, p) = "dir" THEN [exc |-> "IsADirectoryError", fs |-> f]
    ELSE IF fault = "nospace" THEN [exc |-> "OSError", fs |-> [f EXCEPT ![p] = File(<<>>)]]
    ELSE [exc |-> "none", fs |-> [f EXCEPT ![p] = File(data)]]

MkdirFaults == {"none", "perm"}

WriteFaults == {"none", "perm", "nospace"}

\* a filesystem is a tree: whatever exists lies in a directory
WellFormed(self, f) ==
    \A p \in DOMAIN f :
        (f[p].kind # "absent" /\ Parent(p) \in DOMAIN f) => f[Parent(p)].kind = "dir"

StaleContent == << "stale" >>

InitialFilesystems(self) ==
    { f \in [AllPaths(self) -> {Absent, Dir, File(StaleContent)}] :
        /\ f[self.base_path] = Dir
        /\ WellFormed(self, f) }

(***************************************************************************)
(* Generated texts                                                         *)
(***************************************************************************)
dockerfile_content(self) ==
    << "",
       "FROM " \o self.docker_requirements.php.image,
       "",
       "# Install dependencies",
       "RUN apt-get update && apt-get install -y \\",
       "    git \\",
       "    curl \\",
       "    libpng-dev \\",
       "    libonig-dev \\",
       "    libxml2-dev \\",
       "    zip \\",
       "    unzip",
       "",
       "# Install PHP extensions",
       "RUN docker-php-ext-install \\",
       "    " \o Join(self.docker_requirements.php.extensions, " "),
       "",
       "# Install Composer",
       "RUN curl -sS https://getcomposer.org/installer | php -- --install-dir=/usr/local/bin --filename=composer",
       "",
       "WORKDIR /var/www/html",
       "" >>

php_ini_content ==
    << "",
       "upload_max_filesize=40M",
       "post_max_size=40M",
       "memory_limit=512M",
       "" >>

nginx_config ==
    << "",
       "server {",
       "    listen 80;",
       "    index index.php index.html;",
       "    server_name localhost;",
       "    root /var/www/html/public;",
       "",
       "    location / {",
       "        try_files $uri $uri/ /index.php?$query_string;",
       "    }",
       "",
       "    location ~ \\.php$ {",
       "        fastcgi_pass php:9000;",
       "        fastcgi_index index.php;",
       "        fastcgi_param SCRIPT_FILENAME $realpath_root$fastcgi_script_name;",
       "        include fastcgi_params;",
       "    }",
       "}",
       "" >>

(***************************************************************************)
(* Results of a call                                                       *)
(***************************************************************************)
NoResult == [kind |-> "none"]

BoolResult(v) == [kind |-> "bool", b |-> v]

GraphResult(graph) == [kind |-> "graph", g |-> graph]

Returned(v) == [outcome |-> "returned", result |-> v, exc |-> "none"]

Raised(e) == [outcome |-> "raised", result |-> NoResult, exc |-> e]

Snapshot ==
    [op |-> op, outcome |-> outcome, result |-> result, fs |-> fs, inst |-> inst]

(***************************************************************************)
(* initialize_project                                                      *)
(***************************************************************************)
ProcOutcomes == {"exit0", "nonzero", "spawn_error"}

\* subprocess.run(args, check): the exception it raises, "none" if it returns
subprocess_run(p, check) ==
    IF p = "spawn_error" THEN "FileNotFoundError"
    ELSE IF check /\ p = "nonzero" THEN "CalledProcessError"
    ELSE "none"

\* initialize_project with the exit status left unchecked (check=False)
initialize_project_result_unchecked(p) ==
    LET e == subprocess_run(p, FALSE) IN
    IF e = "none" THEN Returned(BoolResult(TRUE))
    ELSE IF IsSubclass(e, "CalledProcessError") THEN Returned(BoolResult(FALSE))
    ELSE Raised(e)

\* the try/except of initialize_project around subprocess.run(..., check=True)
initialize_project_result(p) ==
    LET e == subprocess_run(p, TRUE) IN
    IF e = "none" THEN Returned(BoolResult(TRUE))
    ELSE IF IsSubclass(e, "CalledProcessError") THEN Returned(BoolResult(FALSE))
    ELSE Raised(e)

\* what the container may have done to the mounted directory: on exit 0 the
\* project directory exists; a failed run may leave a partial project
\* directory behind; a process that never started changed nothing
ProcessEffects(self, f, p) ==
    LET proj == ProjectPath(self) IN
    IF p = "exit0" THEN
        IF f[proj].kind = "file" THEN {} ELSE { [f EXCEPT ![proj] = Dir] }
    ELSE IF p = "nonzero" THEN
        IF f[proj].kind = "absent" THEN { f, [f EXCEPT ![proj] = Dir] } ELSE { f }
    ELSE { f }

CallInitializeProject ==
    /\ pc = "idle"
    /\ ncalls < MaxCalls
    /\ pc' = "run"
    /\ op' = "initialize_project"
    /\ outcome' = "none"
    /\ result' = NoResult
    /\ exc' = "none"
    /\ proc' = "none"
    /\ log' = <<>>
    /\ faulted' = FALSE
    /\ prev' = Snapshot
    /\ ncalls' = ncalls + 1
    /\ UNCHANGED <<inst, fs, step>>

RunProcess ==
    /\ pc = "run"
    /\ \E p \in ProcOutcomes :
         \E f2 \in ProcessEffects(inst, fs, p) :
            LET r == initialize_project_result(p) IN
            /\ proc' = p
            /\ fs' = f2
            /\ outcome' = r.outcome
            /\ result' = r.result
            /\ exc' = r.exc
    /\ pc' = "idle"
    /\ UNCHANGED <<inst, op, log, faulted, step, prev, ncalls>>

(***************************************************************************)
(* configure_docker                                                        *)
(***************************************************************************)
\* a configure_docker that also creates the docker directory
ConfigureDockerTouchingDisk ==
    /\ pc = "idle"
    /\ ncalls < MaxCalls
    /\ op' = "configure_docker"
    /\ LET e == configure_docker_exc(inst) IN
         IF e = "none"
         THEN /\ outcome' = "returned"
              /\ result' = GraphResult(configure_docker(inst))
              /\ exc' = "none"
         ELSE /\ outcome' = "raised"
              /\ result' = NoResult
              /\ exc' = e
    /\ fs' = path_mkdir(fs, DockerPath(inst), "none").fs
    /\ proc' = "none"
    /\ log' = <<>>
    /\ faulted' = FALSE
    /\ prev' = Snapshot
    /\ ncalls' = ncalls + 1
    /\ UNCHANGED <<inst, pc, step>>

ConfigureDocker ==
    /\ pc = "idle"
    /\ ncalls < MaxCalls
    /\ op' = "configure_docker"
    /\ LET e == configure_docker_exc(inst) IN
         IF e = "none"
         THEN /\ outcome' = "returned"
              /\ result' = GraphResult(configure_docker(inst))
              /\ exc' = "none"
         ELSE /\ outcome' = "raised"
              /\ result' = NoResult
              /\ exc' = e
    /\ proc' = "none"
    /\ log' = <<>>
    /\ faulted' = FALSE
    /\ prev' = Snapshot
    /\ ncalls' = ncalls + 1
    /\ UNCHANGED <<inst, fs, pc, step>>

(***************************************************************************)
(* setup_development_environment                                           *)
(***************************************************************************)
\* the same calls with the Dockerfile written before its directory is made
SetupSteps_write_before_mkdir(self) ==
    << [kind |-> "mkdir", path |-> DockerPath(self),     data |-> <<>>],
       [kind |-> "write", path |-> DockerfilePath(self), data |-> Strip(dockerfile_content(self))],
       [kind |-> "mkdir", path |-> PhpPath(self),        data |-> <<>>],
       [kind |-> "write", path |-> LocalIniPath(self),   data |-> Strip(php_ini_content)],
       [kind |-> "mkdir", path |-> NginxPath(self),      data |-> <<>>],
       [kind |-> "mkdir", path |-> ConfDPath(self),      data |-> <<>>],
       [kind |-> "write", path |-> AppConfPath(self),    data |-> Strip(nginx_config)] >>

\* the filesystem calls of _create_docker_configs, _create_php_dockerfile
\* and _create_nginx_config, in program order
SetupSteps(self) ==
    << [kind |-> "mkdir", path |-> DockerPath(self),     data |-> <<>>],
       [kind |-> "mkdir", path |-> PhpPath(self),        data |-> <<>>],
       [kind |-> "write", path |-> DockerfilePath(self), data |-> Strip(dockerfile_content(self))],
       [kind |-> "write", path |-> LocalIniPath(self),   data |-> Strip(php_ini_content)],
       [kind |-> "mkdir", path |-> NginxPath(self),      data |-> <<>>],
       [kind |-> "mkdir", path |-> ConfDPath(self),      data |-> <<>>],
       [kind |-> "write", path |-> AppConfPath(self),    data |-> Strip(nginx_config)] >>

\* a handler that catches FileNotFoundError only
setup_development_environment_result_narrow(e) ==
    IF e = "none" THEN Returned(BoolResult(TRUE))
    ELSE IF IsSubclass(e, "FileNotFoundError") THEN Returned(BoolResult(FALSE))
    ELSE Raised(e)

\* the try/except of setup_development_environment: e is the exception that
\* came out of _create_docker_configs, "none" if it returned
setup_development_environment_result(e) ==
    IF e = "none" THEN Returned(BoolResult(TRUE))
    ELSE IF IsSubclass(e, "Exception") THEN Returned(BoolResult(FALSE))
    ELSE Raised(e)

CallSetupDevelopmentEnvironment ==
    /\ pc = "idle"
    /\ ncalls < MaxCalls
    /\ pc' = "assets"
    /\ step' = 1
    /\ op' = "setup_development_environment"
    /\ outcome' = "none"
    /\ result' = NoResult
    /\ exc' = "none"
    /\ proc' = "none"
    /\ log' = <<>>
    /\ faulted' = FALSE
    /\ prev' = Snapshot
    /\ ncalls' = ncalls + 1
    /\ UNCHANGED <<inst, fs>>

\* what follows a filesystem call that ended with exception e ("none": none)
AfterStep(e) ==
    IF e = "none" /\ step < Len(SetupSteps(inst))
    THEN /\ step' = step + 1
         /\ UNCHANGED <<pc, outcome, result>>
    ELSE LET r == setup_development_environment_result(e) IN
         /\ step' = 0
         /\ pc' = "idle"
         /\ outcome' = r.outcome
         /\ result' = r.result

MkdirStep ==
    /\ pc = "assets"
    /\ SetupSteps(inst)[step].kind = "mkdir"
    /\ \E fault \in MkdirFaults :
         LET s == SetupSteps(inst)[step]
             r == path_mkdir(fs, s.path, fault) IN
         /\ fs' = r.fs
         /\ exc' = r.exc
         /\ faulted' = (faulted \/ fault # "none")
         /\ log' = IF r.exc = "none"
                   THEN Append(log, [op |-> "mkdir", path |-> s.path])
                   ELSE log
         /\ AfterStep(r.exc)
    /\ UNCHANGED <<inst, op, proc, prev, ncalls>>

WriteStep ==
    /\ pc = "assets"
    /\ SetupSteps(inst)[step].kind = "write"
    /\ \E fault \in WriteFaults :
         LET s == SetupSteps(inst)[step]
             r == write_text(fs, s.path, s.data, fault) IN
         /\ fs' = r.fs
         /\ exc' = r.exc
         /\ faulted' = (faulted \/ fault # "none")
         /\ log' = IF r.exc = "none"
                   THEN Append(log, [op |-> "write", path |-> s.path])
                   ELSE log
         /\ AfterStep(r.exc)
    /\ UNCHANGED <<inst, op, proc, prev, ncalls>>

(***************************************************************************)
(* Specification                                                           *)
(***************************************************************************)
Init ==
    /\ \E name \in ProjectNames, base \in BasePaths, req \in BaseRequirements :
         inst = NewLaravelFramework(name, base, req)
    /\ fs \in InitialFilesystems(inst)
    /\ pc = "idle"
    /\ op = "none"
    /\ outcome = "none"
    /\ result = NoResult
    /\ exc = "none"
    /\ proc = "none"
    /\ log = <<>>
    /\ faulted = FALSE
    /\ step = 0
    /\ prev = [op |-> "none", outcome |-> "none", result |-> NoResult,
               fs |-> fs, inst |-> inst]
    /\ ncalls = 0

Next ==
    \/ CallInitializeProject
    \/ RunProcess
    \/ ConfigureDocker
    \/ CallSetupDevelopmentEnvironment
    \/ MkdirStep
    \/ WriteStep

Spec == Init /\ [][Next]_vars

TypeOK ==
    /\ pc \in {"idle", "run", "assets"}
    /\ op \in {"none", "initialize_project", "configure_docker",
               "setup_development_environment"}
    /\ outcome \in {"none", "returned", "raised"}
    /\ step \in 0..Len(SetupSteps(inst))
    /\ (pc = "assets") = (step > 0)
    /\ ncalls \in 0..MaxCalls
    /\ WellFormed(inst, fs)

(***************************************************************************)
(* Properties                                                              *)
(***************************************************************************)
Done(o) == pc = "idle" /\ op = o /\ outcome # "none"

ServicesWithPorts(graph) ==
    { s \in DOMAIN graph.services : "ports" \in DOMAIN graph.services[s] }

Range(seq) == { seq[i] : i \in 1..Len(seq) }

DependsOn(graph, s) ==
    IF "depends_on" \in DOMAIN graph.services[s]
    THEN Range(graph.services[s].depends_on)
    ELSE {}

\* the services reachable from s in at most n depends_on steps (at least one)
RECURSIVE ReachableIn(_, _, _)
ReachableIn(graph, s, n) ==
    IF n = 0 THEN {}
    ELSE LET near == ReachableIn(graph, s, n - 1) IN
         DependsOn(graph, s) \cup near
            \cup UNION { DependsOn(graph, t) : t \in near \cap DOMAIN graph.services }

Reachable(graph, s) == ReachableIn(graph, s, Cardinality(DOMAIN graph.services))

\* the directories from docker/ down to the parent of p
AncestorsFromDocker(self, p) ==
    { SubSeq(p, 1, k) : k \in Len(DockerPath(self))..(Len(p) - 1) }

\* C1: initialize_project never lets an exception escape: every failure of
\* the external process, a non-zero exit as well as a failure to spawn it,
\* makes the call return false.
C1_NoExceptionEscapes ==
    Done("initialize_project") =>
        /\ outcome = "returned"
        /\ (proc # "exit0" => result = BoolResult(FALSE))

\* C2 (as stated): the name of every service of configure_docker() that has
\* a ports entry is a key of get_default_ports().
C2_ServiceNamesAreKeys ==
    (Done("configure_docker") /\ outcome = "returned") =>
        ServicesWithPorts(result.g) \subseteq DOMAIN get_default_ports(inst)

\* C2 (amended): configure_docker returns, and for every service that has
\* a ports entry the key its host port is read from (web for nginx,
\* database for mysql, redis for redis) is a key of get_default_ports().
C2_LookedUpKeysAreKeys ==
    Done("configure_docker") =>
        /\ outcome = "returned"
        /\ \A s \in ServicesWithPorts(result.g) :
              /\ s \in DOMAIN PortKey
              /\ PortKey[s] \in DOMAIN get_default_ports(inst)

C2_Witness ==
    /\ Done("configure_docker")
    /\ outcome = "returned"
    /\ ServicesWithPorts(result.g) = {"nginx", "mysql", "redis"}
    /\ ncalls = 1

\* C3: initialize_project returns true exactly when the external process
\* exits with status zero, returns false when it exits with a non-zero
\* status, and in the false case has made no filesystem call of its own.
C3_TrueIffExitZero ==
    Done("initialize_project") =>
        /\ (result = BoolResult(TRUE)) <=> (proc = "exit0")
        /\ (proc = "nonzero") => (outcome = "returned" /\ result = BoolResult(FALSE))
        /\ (result = BoolResult(FALSE)) => (log = <<>>)

C3_Witness ==
    /\ Done("initialize_project")
    /\ proc = "nonzero"
    /\ result = BoolResult(FALSE)
    /\ fs = prev.fs

\* C4: setup_development_environment returns false whenever a directory
\* creation or file write it performs fails, true otherwise, and never lets
\* an exception reach the caller.
C4_FalseIffFilesystemFailure ==
    Done("setup_development_environment") =>
        /\ outcome = "returned"
        /\ (exc # "none") => (result = BoolResult(FALSE))
        /\ (exc = "none") => (result = BoolResult(TRUE))

C4_Witness ==
    /\ Done("setup_development_environment")
    /\ exc = "PermissionError"
    /\ result = BoolResult(FALSE)
    /\ Len(log) > 0

\* C5: a second setup_development_environment right after a successful one
\* succeeds too (an existing directory or file is no error) and leaves the
\* same directories and the same contents of Dockerfile, local.ini and
\* app.conf.
C5_Idempotent ==
    ( /\ Done("setup_development_environment")
      /\ prev.op = "setup_development_environment"
      /\ prev.result = BoolResult(TRUE)
      /\ ~faulted ) =>
        /\ result = BoolResult(TRUE)
        /\ fs = prev.fs
        /\ fs[DockerfilePath(inst)] = File(Strip(dockerfile_content(inst)))
        /\ fs[LocalIniPath(inst)] = File(Strip(php_ini_content))
        /\ fs[AppConfPath(inst)] = File(Strip(nginx_config))

C5_Witness ==
    /\ Done("setup_development_environment")
    /\ prev.op = "setup_development_environment"
    /\ prev.result = BoolResult(TRUE)
    /\ ~faulted
    /\ result = BoolResult(TRUE)
    /\ Len(log) = 7

\* C6: in the graph configure_docker returns no service reaches itself along
\* depends_on edges; the edges are php -> mysql and nginx -> php only.
C6_DependsOnAcyclic ==
    (Done("configure_docker") /\ outcome = "returned") =>
        /\ \A s \in DOMAIN result.g.services : s \notin Reachable(result.g, s)
        /\ DependsOn(result.g, "php") = {"mysql"}
        /\ DependsOn(result.g, "nginx") = {"php"}
        /\ DependsOn(result.g, "mysql") = {}
        /\ DependsOn(result.g, "redis") = {}

C6_Witness ==
    /\ Done("configure_docker")
    /\ outcome = "returned"
    /\ Reachable(result.g, "nginx") = {"php", "mysql"}

\* C7: configure_docker is pure: a call leaves the instance and the
\* filesystem as they were, and a call that follows another call returns a
\* structurally identical graph.
C7_ConfigureDockerPure ==
    Done("configure_docker") =>
        /\ inst = prev.inst
        /\ fs = prev.fs
        /\ (prev.op = "configure_docker" /\ prev.outcome = "returned") =>
              (outcome = "returned" /\ result = prev.result)

C7_Witness ==
    /\ Done("configure_docker")
    /\ prev.op = "configure_docker"
    /\ prev.outcome = "returned"
    /\ result = prev.result
    /\ fs[ProjectPath(inst)].kind = "dir"
    /\ fs[DockerPath(inst)].kind = "absent"

\* C8: every port binding takes its host port from get_default_ports: with
\* the ports 8080, 3306 and 6379 the bindings of nginx, mysql and redis are
\* exactly ["8080:80"], ["3306:3306"] and ["6379:6379"].
C8_PortBindings ==
    (Done("configure_docker") /\ outcome = "returned") =>
        /\ get_default_ports(inst)[PortKey["nginx"]] = 8080
        /\ get_default_ports(inst)[PortKey["mysql"]] = 3306
        /\ get_default_ports(inst)[PortKey["redis"]] = 6379
        /\ result.g.services["nginx"].ports = << "8080:80" >>
        /\ result.g.services["mysql"].ports = << "3306:3306" >>
        /\ result.g.services["redis"].ports = << "6379:6379" >>

C8_Witness ==
    /\ Done("configure_docker")
    /\ outcome = "returned"
    /\ result.g.services["nginx"].ports[1] = HostPort(inst, "nginx") \o ":80"
    /\ Len(result.g.services["nginx"].ports) = 1

\* C9: whenever a file has been written during
\* setup_development_environment, its parent directory and every ancestor up
\* to docker/ was created or found present earlier in the same call.
C9_MkdirBeforeWrite ==
    \A i \in 1..Len(log) :
        log[i].op = "write" =>
            \A a \in AncestorsFromDocker(inst, log[i].path) :
                \E j \in 1..(i - 1) : log[j] = [op |-> "mkdir", path |-> a]

C9_Witness ==
    /\ op = "setup_development_environment"
    /\ Len(log) = 7
    /\ log[7] = [op |-> "write", path |-> AppConfPath(inst)]
    /\ log[3] = [op |-> "write", path |-> DockerfilePath(inst)]
    /\ prev.fs[PhpPath(inst)].kind = "dir"

\* C10: when the project directory does not exist at the call,
\* setup_development_environment returns false, creates no directory and
\* writes no file; a generated file or directory exists only inside an
\* existing project directory.
C10_NoProjectDirNoAssets ==
    /\ (op = "setup_development_environment"
            /\ prev.fs[ProjectPath(inst)].kind = "absent") =>
          /\ fs = prev.fs
          /\ log = <<>>
          /\ (pc = "idle") => (outcome = "returned" /\ result = BoolResult(FALSE))
    /\ \A p \in GeneratedPaths(inst) :
          fs[p].kind # "absent" => fs[ProjectPath(inst)].kind = "dir"

C10_Witness ==
    /\ Done("setup_development_environment")
    /\ prev.fs[ProjectPath(inst)].kind = "absent"
    /\ exc = "FileNotFoundError"
    /\ result = BoolResult(FALSE)
    /\ ~faulted

====
